---- MODULE Spec2Model ----
(***************************************************************************)
(* Replay catch-up protocol of ReplayBroker (replay_broker/replaybroker.py) *)
(*                                                                         *)
(* One process runs the broker in client mode (request loop + dispatch     *)
(* workers), another runs it in server mode (local replay server) and is   *)
(* the client's upstream.  A second requester (the peer) talks to the same *)
(* replay server and may send any JSON request.                            *)
(***************************************************************************)
EXTENDS Integers, Sequences, FiniteSets, TLC

\* ---------------------------------------------------------------- bounds
\* arrival times are 1..MaxTime
MaxTime == 3
\* dispatch-worker thread slots (the code puts no limit on threads)
MaxWorkers == 2

Times == 1..MaxTime
WorkerIds == 1..MaxWorkers
\* requester 0 is the peer, requester w > 0 is the socket of worker w
PeerId == 0
Requesters == 0..MaxWorkers

\* ---------------------------------------------------------------- values
\* Python's None
None == [none |-> TRUE]
\* nothing on the wire
NoMsg == [nomsg |-> TRUE]
\* a JSON array
JsonList(s) == [list |-> s]

Kinds == {"energy_usage", "weather"}
Events == [name : Kinds, arrival_time : Times]
EnergyEvents == { e \in Events : e.name = "energy_usage" }

\* serialization codec (serialization.py): a record travels wrapped
serialize_msg(m) == [json |-> m]
deserialize_msg(s) == s.json
\* deserialize_msg raises on anything that is not a serialized record
Deserializable(s) == "json" \in DOMAIN s

\* ---------------------------------------------------------------- store
\* The repository keeps its events in insertion order.
RECURSIVE MaxArrival(_)
MaxArrival(store) ==
    IF store = <<>> THEN 0
    ELSE LET m == MaxArrival(Tail(store))
             h == Head(store).arrival_time
         IN  IF h > m THEN h ELSE m

\* latest_event(): the stored event with the greatest arrival time, or None
find_latest_energy_usage(store) ==
    IF store = <<>> THEN None
    ELSE LET m == MaxArrival(store)
         IN  store[CHOOSE i \in 1..Len(store) : store[i].arrival_time = m]

\* events_after(t): the stored events that arrived strictly after t, in store order
find_energy_after_arrival_time(store, t) ==
    SelectSeq(store, LAMBDA e : e.arrival_time > t)

\* all_events(): every stored event, in store order
get_all_events(store) == store

\* persist(e) on a store whose latest event never moves back
CanInsert(store, e) == e.arrival_time > MaxArrival(store)

\* the order of watermarks: None is before every event
ArrivalOf(w) == IF w = None THEN 0 ELSE w.arrival_time
WmLeq(a, b) == ArrivalOf(a) <= ArrivalOf(b)

\* ---------------------------------------------------------------- requests
ReplayAll == [type |-> "replay_all"]
ReplayByTimestamp(w) == [type |-> "replay_by_timestamp", last_event_date |-> serialize_msg(w)]

\* a request that asks for everything whatever the watermark is
BuildRequestAlwaysAll(wm) == ReplayAll

\* send_replay_request, lines 78-81: the request built from the watermark
BuildRequest(wm) == IF wm = None THEN ReplayAll ELSE ReplayByTimestamp(wm)

VARIABLES
    \* ---- replay client process
    last_event_date,        \* the watermark
    request_in_progress,
    send_replay_lock,       \* "free" or its holder
    remote_replay_socket,   \* "None", "open" or "closed"
    loop_pc,                \* the request loop's position
    loop_request,           \* the local `request` of send_replay_request
    workers,                \* the _send_replay_request threads: position, request,
                            \* response, index into the batch, messages processed
    client_store,           \* the client's repository
    \* ---- upstream replay server process
    server_store,           \* the server's repository
    srv_pc,
    srv_events,             \* the local `events` of start_local_replay_server
    srv_must_reply,         \* the REP socket owes a reply to its last request
    \* ---- transport
    req_chan,               \* requests on their way to the server, by requester
    rep_chan,               \* replies on their way back, by requester
    peer_pc,
    peer_request,           \* what the peer sent last
    \* ---- history
    last_attempt            \* the last dispatched request and how its worker ended

vars == << last_event_date, request_in_progress, send_replay_lock, remote_replay_socket,
           loop_pc, loop_request, workers, client_store,
           server_store, srv_pc, srv_events, srv_must_reply,
           req_chan, rep_chan, peer_pc, peer_request, last_attempt >>

clientVars == << last_event_date, request_in_progress, send_replay_lock, remote_replay_socket,
                 loop_pc, loop_request, workers, client_store, last_attempt >>
serverVars == << server_store, srv_pc, srv_events, srv_must_reply >>
netVars == << req_chan, rep_chan, peer_pc, peer_request >>

IdleWorker ==
    [pc |-> "none", request |-> NoMsg, response |-> NoMsg, idx |-> 0, processed |-> <<>>]
Unbound == [bound |-> FALSE, val |-> <<>>]

Active(w) == workers[w].pc # "none"
ActiveWorkers == {w \in WorkerIds : Active(w)}

\* the repositories the client can start over: energy-usage events, arrival
\* times strictly increasing along the store
Stores ==
    { s \in UNION { [1..n -> EnergyEvents] : n \in 0..MaxTime } :
        \A i \in 1..Len(s) : \A j \in 1..Len(s) :
            i < j => s[i].arrival_time < s[j].arrival_time }

\* ReplayBroker.__init__ (lines 26-35), in both processes; the client may start
\* over any repository, the upstream's fills as the run goes
Init ==
    /\ client_store \in Stores
    /\ last_event_date = find_latest_energy_usage(client_store)
    /\ request_in_progress = FALSE
    /\ send_replay_lock = "free"
    /\ remote_replay_socket = "None"
    /\ loop_pc = "check"
    /\ loop_request = NoMsg
    /\ workers = [w \in WorkerIds |-> IdleWorker]
    /\ server_store = <<>>
    /\ srv_pc = "recv"
    /\ srv_events = Unbound
    /\ srv_must_reply = FALSE
    /\ req_chan = [r \in Requesters |-> NoMsg]
    /\ rep_chan = [r \in Requesters |-> NoMsg]
    /\ peer_pc = "idle"
    /\ peer_request = NoMsg
    /\ last_attempt = [request |-> NoMsg, outcome |-> "none"]

\* ================================================================ request loop
\* a request loop that dispatches on every tick
ShouldDispatchAlways == TRUE

\* start_replay_request_loop, line 73: the test of the flag
ShouldDispatch == ~request_in_progress

\* a tick that re-reads the watermark into the pending request before the test
LoopCheckRebuilds ==
    /\ loop_pc = "check"
    /\ loop_pc' = IF ShouldDispatch THEN "build" ELSE "skip"
    /\ loop_request' = BuildRequest(last_event_date)
    /\ UNCHANGED << last_event_date, request_in_progress, send_replay_lock,
                    remote_replay_socket, workers, client_store >>
    /\ UNCHANGED << serverVars, netVars >>
    /\ UNCHANGED last_attempt

\* line 73: the tick goes into send_replay_request or skips to the sleep of line 75
LoopCheck ==
    /\ loop_pc = "check"
    /\ loop_pc' = IF ShouldDispatch THEN "build" ELSE "skip"
    /\ UNCHANGED << last_event_date, request_in_progress, send_replay_lock,
                    remote_replay_socket, loop_request, workers, client_store >>
    /\ UNCHANGED << serverVars, netVars >>
    /\ UNCHANGED last_attempt

\* a request builder that first re-reads the watermark from the repository
LoopBuildRequeries ==
    /\ loop_pc = "build"
    /\ last_event_date' = find_latest_energy_usage(client_store)
    /\ loop_request' = BuildRequest(last_event_date')
    /\ loop_pc' = "acquire"
    /\ UNCHANGED << request_in_progress, send_replay_lock,
                    remote_replay_socket, workers, client_store >>
    /\ UNCHANGED << serverVars, netVars >>
    /\ UNCHANGED last_attempt

\* send_replay_request, lines 78-81
LoopBuild ==
    /\ loop_pc = "build"
    /\ loop_request' = BuildRequest(last_event_date)
    /\ loop_pc' = "acquire"
    /\ UNCHANGED << last_event_date, request_in_progress, send_replay_lock,
                    remote_replay_socket, workers, client_store >>
    /\ UNCHANGED << serverVars, netVars >>
    /\ UNCHANGED last_attempt

\* line 83: with self.send_replay_lock
LoopAcquire ==
    /\ loop_pc = "acquire"
    /\ send_replay_lock = "free"
    /\ send_replay_lock' = "loop"
    /\ loop_pc' = "set"
    /\ UNCHANGED << last_event_date, request_in_progress, remote_replay_socket,
                    loop_request, workers, client_store >>
    /\ UNCHANGED << serverVars, netVars >>
    /\ UNCHANGED last_attempt

\* line 84
LoopSetFlag ==
    /\ loop_pc = "set"
    /\ request_in_progress' = TRUE
    /\ loop_pc' = "spawn"
    /\ UNCHANGED << last_event_date, send_replay_lock, remote_replay_socket,
                    loop_request, workers, client_store >>
    /\ UNCHANGED << serverVars, netVars >>
    /\ UNCHANGED last_attempt

\* the thread slot a new worker takes
FreeSlot == CHOOSE w \in WorkerIds : ~Active(w) /\ \A v \in WorkerIds : v < w => Active(v)

\* a dispatch that starts the worker and keeps the lock for the exchange
LoopSpawnKeepsLock ==
    /\ loop_pc = "spawn"
    /\ \E w \in WorkerIds : ~Active(w)
    /\ workers' = [workers EXCEPT ![FreeSlot] =
                      [IdleWorker EXCEPT !.pc = "create", !.request = loop_request]]
    /\ loop_pc' = "sleep"
    /\ UNCHANGED << last_event_date, request_in_progress, send_replay_lock,
                    remote_replay_socket, loop_request, client_store >>
    /\ UNCHANGED << serverVars, netVars >>
    /\ last_attempt' = [request |-> loop_request, outcome |-> "running"]

\* line 85 and the end of the with block: start the worker, release the lock
LoopSpawn ==
    /\ loop_pc = "spawn"
    /\ \E w \in WorkerIds : ~Active(w)
    /\ workers' = [workers EXCEPT ![FreeSlot] =
                      [IdleWorker EXCEPT !.pc = "create", !.request = loop_request]]
    /\ send_replay_lock' = "free"
    /\ loop_pc' = "sleep"
    /\ UNCHANGED << last_event_date, request_in_progress, remote_replay_socket,
                    loop_request, client_store >>
    /\ UNCHANGED << serverVars, netVars >>
    /\ last_attempt' = [request |-> loop_request, outcome |-> "running"]

\* line 75, after a dispatch ("sleep") or a skipped tick ("skip")
LoopSleep ==
    /\ loop_pc \in {"sleep", "skip"}
    /\ loop_pc' = "check"
    /\ UNCHANGED << last_event_date, request_in_progress, send_replay_lock,
                    remote_replay_socket, loop_request, workers, client_store >>
    /\ UNCHANGED << serverVars, netVars >>
    /\ UNCHANGED last_attempt

\* ================================================================ dispatch worker
WorkerAt(w, pc) == workers[w].pc = pc
Goto(w, pc) == [workers EXCEPT ![w].pc = pc]

\* line 90: self.context.socket(zmq.REQ) returns a socket
WCreateSocket(w) ==
    /\ WorkerAt(w, "create")
    /\ remote_replay_socket' = "open"
    /\ workers' = Goto(w, "connect")
    /\ UNCHANGED << last_event_date, request_in_progress, send_replay_lock,
                    loop_pc, loop_request, client_store >>
    /\ UNCHANGED << serverVars, netVars >>
    /\ UNCHANGED last_attempt

\* line 90: self.context.socket(zmq.REQ) raises ZMQError; the attribute keeps its value
WCreateSocketFails(w) ==
    /\ WorkerAt(w, "create")
    /\ workers' = Goto(w, "finally")
    /\ UNCHANGED << last_event_date, request_in_progress, send_replay_lock,
                    remote_replay_socket, loop_pc, loop_request, client_store >>
    /\ UNCHANGED << serverVars, netVars >>
    /\ last_attempt' = [last_attempt EXCEPT !.outcome = "failed"]

\* lines 91-93: setsockopt and connect
WConnect(w) ==
    /\ WorkerAt(w, "connect")
    /\ workers' = Goto(w, "send")
    /\ UNCHANGED << last_event_date, request_in_progress, send_replay_lock,
                    remote_replay_socket, loop_pc, loop_request, client_store >>
    /\ UNCHANGED << serverVars, netVars >>
    /\ UNCHANGED last_attempt

\* lines 91-93: setsockopt or connect raises ZMQError (a bad address)
WConnectFails(w) ==
    /\ WorkerAt(w, "connect")
    /\ workers' = Goto(w, "finally")
    /\ UNCHANGED << last_event_date, request_in_progress, send_replay_lock,
                    remote_replay_socket, loop_pc, loop_request, client_store >>
    /\ UNCHANGED << serverVars, netVars >>
    /\ last_attempt' = [last_attempt EXCEPT !.outcome = "failed"]

\* line 97: send_json(request)
WSend(w) ==
    /\ WorkerAt(w, "send")
    /\ req_chan' = [req_chan EXCEPT ![w] = workers[w].request]
    /\ workers' = Goto(w, "recv")
    /\ UNCHANGED << last_event_date, request_in_progress, send_replay_lock,
                    remote_replay_socket, loop_pc, loop_request, client_store >>
    /\ UNCHANGED << serverVars, rep_chan, peer_pc, peer_request >>
    /\ UNCHANGED last_attempt

\* line 98: recv_json() returns the reply
WRecv(w) ==
    /\ WorkerAt(w, "recv")
    /\ rep_chan[w] # NoMsg
    /\ workers' = [workers EXCEPT ![w].pc = "handle", ![w].response = rep_chan[w], ![w].idx = 1]
    /\ rep_chan' = [rep_chan EXCEPT ![w] = NoMsg]
    /\ UNCHANGED << last_event_date, request_in_progress, send_replay_lock,
                    remote_replay_socket, loop_pc, loop_request, client_store >>
    /\ UNCHANGED << serverVars, req_chan, peer_pc, peer_request >>
    /\ UNCHANGED last_attempt

\* no reply has arrived when the receive timeout runs out: the upstream is out
\* of reach, slow, or its server loop has ended
NoAnswer(w) == rep_chan[w] = NoMsg

\* a timeout handler that forgets the watermark to start over
WTimeoutResetsWatermark(w) ==
    /\ WorkerAt(w, "recv")
    /\ NoAnswer(w)
    /\ workers' = Goto(w, "backoff")
    /\ req_chan' = [req_chan EXCEPT ![w] = NoMsg]
    /\ last_event_date' = None
    /\ UNCHANGED << request_in_progress, send_replay_lock,
                    remote_replay_socket, loop_pc, loop_request, client_store >>
    /\ UNCHANGED << serverVars, rep_chan, peer_pc, peer_request >>
    /\ last_attempt' = [last_attempt EXCEPT !.outcome = "timeout"]

\* lines 98, 100-101: recv_json() raises zmq.error.Again after RCVTIMEO
WTimeout(w) ==
    /\ WorkerAt(w, "recv")
    /\ NoAnswer(w)
    /\ workers' = Goto(w, "backoff")
    /\ req_chan' = [req_chan EXCEPT ![w] = NoMsg]
    /\ UNCHANGED << last_event_date, request_in_progress, send_replay_lock,
                    remote_replay_socket, loop_pc, loop_request, client_store >>
    /\ UNCHANGED << serverVars, rep_chan, peer_pc, peer_request >>
    /\ last_attempt' = [last_attempt EXCEPT !.outcome = "timeout"]

\* line 102: time.sleep(5)
WBackoff(w) ==
    /\ WorkerAt(w, "backoff")
    /\ workers' = Goto(w, "finally")
    /\ UNCHANGED << last_event_date, request_in_progress, send_replay_lock,
                    remote_replay_socket, loop_pc, loop_request, client_store >>
    /\ UNCHANGED << serverVars, netVars >>
    /\ UNCHANGED last_attempt

\* process_replay_msg, lines 108-114: the repository after one replayed message
\* (the insert of line 112 is commented out: neither kind is stored)
process_replay_msg(store, msg) ==
    LET msg_deserialized == deserialize_msg(msg)
    IN  IF msg_deserialized.name = "energy_usage" THEN store
        ELSE store

\* a watermark taken from first_event_date (line 35), which nothing ever sets
RequeryFirstEventDate(store) == None

\* handle_replay_events, line 124: the watermark is re-read from the repository
RequeryWatermark(store) == find_latest_energy_usage(store)

\* handle_replay_events, lines 119-122: nothing to iterate over
NothingToApply(events) == IF events = None THEN TRUE ELSE events.list = <<>>

\* an apply path that re-reads the watermark even when there is nothing to apply
WHandleNothingRequery(w) ==
    /\ WorkerAt(w, "handle")
    /\ NothingToApply(workers[w].response)
    /\ last_event_date' = find_latest_energy_usage(client_store)
    /\ workers' = Goto(w, "finally")
    /\ UNCHANGED << request_in_progress, send_replay_lock,
                    remote_replay_socket, loop_pc, loop_request, client_store >>
    /\ UNCHANGED << serverVars, netVars >>
    /\ last_attempt' = [last_attempt EXCEPT !.outcome = "applied"]

\* handle_replay_events, lines 119-120 and an empty for loop
WHandleNothing(w) ==
    /\ WorkerAt(w, "handle")
    /\ NothingToApply(workers[w].response)
    /\ workers' = Goto(w, "finally")
    /\ UNCHANGED << last_event_date, request_in_progress, send_replay_lock,
                    remote_replay_socket, loop_pc, loop_request, client_store >>
    /\ UNCHANGED << serverVars, netVars >>
    /\ last_attempt' = [last_attempt EXCEPT !.outcome = "applied"]

\* a for loop that walks the batch from its end
NextEventFromBack(events, i) == events[Len(events) - i + 1]

\* handle_replay_events, line 122: the event of the i-th turn of the for loop
NextEvent(events, i) == events[i]

\* a watermark taken from the event that was just processed
WatermarkFromEvent(store, event) == deserialize_msg(event)

\* handle_replay_events, line 124: the watermark after an event was processed
WatermarkAfterEvent(store, event) == RequeryWatermark(store)

\* handle_replay_events, lines 122-124: one turn of the for loop
WApplyEvent(w) ==
    /\ WorkerAt(w, "handle")
    /\ ~NothingToApply(workers[w].response)
    /\ LET events == workers[w].response.list
           i == workers[w].idx
           event == NextEvent(events, i)
           stored == process_replay_msg(client_store, event)
       IN  /\ client_store' = stored
           /\ last_event_date' = WatermarkAfterEvent(stored, event)
           /\ workers' = [workers EXCEPT
                             ![w].processed = Append(@, event),
                             ![w].pc = IF i = Len(events) THEN "finally" ELSE @,
                             ![w].idx = IF i = Len(events) THEN @ ELSE i + 1]
           /\ last_attempt' = IF i = Len(events)
                               THEN [last_attempt EXCEPT !.outcome = "applied"]
                               ELSE last_attempt
    /\ UNCHANGED << request_in_progress, send_replay_lock,
                    remote_replay_socket, loop_pc, loop_request >>
    /\ UNCHANGED << serverVars, netVars >>

\* lines 123-124: a repository call raises while the batch is applied
WApplyFails(w) ==
    /\ WorkerAt(w, "handle")
    /\ ~NothingToApply(workers[w].response)
    /\ workers' = Goto(w, "finally")
    /\ UNCHANGED << last_event_date, request_in_progress, send_replay_lock,
                    remote_replay_socket, loop_pc, loop_request, client_store >>
    /\ UNCHANGED << serverVars, netVars >>
    /\ last_attempt' = [last_attempt EXCEPT !.outcome = "failed"]

\* a finally block that goes on to line 106 and leaves the socket as it is
WFinallyCloseSkipped(w) ==
    /\ WorkerAt(w, "finally")
    /\ remote_replay_socket # "None"
    /\ workers' = Goto(w, "clear")
    /\ UNCHANGED << last_event_date, request_in_progress, send_replay_lock,
                    remote_replay_socket, loop_pc, loop_request, client_store >>
    /\ UNCHANGED << serverVars, netVars >>
    /\ UNCHANGED last_attempt

\* line 105: self.remote_replay_socket.close()
WFinallyClose(w) ==
    /\ WorkerAt(w, "finally")
    /\ remote_replay_socket # "None"
    /\ remote_replay_socket' = "closed"
    /\ workers' = Goto(w, "clear")
    /\ UNCHANGED << last_event_date, request_in_progress, send_replay_lock,
                    loop_pc, loop_request, client_store >>
    /\ UNCHANGED << serverVars, netVars >>
    /\ UNCHANGED last_attempt

\* line 105: the attribute is still None, .close() raises AttributeError and
\* the thread ends before line 106
WFinallyCloseRaises(w) ==
    /\ WorkerAt(w, "finally")
    /\ remote_replay_socket = "None"
    /\ workers' = [workers EXCEPT ![w] = IdleWorker]
    /\ UNCHANGED << last_event_date, request_in_progress, send_replay_lock,
                    remote_replay_socket, loop_pc, loop_request, client_store >>
    /\ UNCHANGED << serverVars, netVars >>
    /\ UNCHANGED last_attempt

\* line 106: the flag is cleared and the thread ends
WFinallyClear(w) ==
    /\ WorkerAt(w, "clear")
    /\ request_in_progress' = FALSE
    /\ workers' = [workers EXCEPT ![w] = IdleWorker]
    /\ UNCHANGED << last_event_date, send_replay_lock, remote_replay_socket,
                    loop_pc, loop_request, client_store >>
    /\ UNCHANGED << serverVars, netVars >>
    /\ UNCHANGED last_attempt

\* ================================================================ replay server
\* a JSON object as a function of its keys; {} and null are falsy (line 56)
EmptyRequest == <<>>
Truthy(request) == DOMAIN request # {}
TypeOf(request) == IF "type" \in DOMAIN request THEN request.type ELSE "None"

WellFormed(request) ==
    \/ request = ReplayAll
    \/ /\ TypeOf(request) = "replay_by_timestamp"
       /\ "last_event_date" \in DOMAIN request
       /\ Deserializable(request.last_event_date)

\* lines 59-61: deserialize_msg(request.get("last_event_date"))["arrival_time"]
\* raises when the field is missing
ByTimestampRaises(request) ==
    ~("last_event_date" \in DOMAIN request /\ Deserializable(request.last_event_date))

\* a server that answers replay_by_timestamp with the whole store
EventsAfterDispatchAll(request, events, store) ==
    IF TypeOf(request) \in {"replay_by_timestamp", "replay_all"}
    THEN [bound |-> TRUE, val |-> get_all_events(store)]
    ELSE events

\* lines 57-63: the local `events` after the if/elif; an unrecognized type
\* leaves the variable as the previous turn of the loop left it
EventsAfterDispatch(request, events, store) ==
    IF TypeOf(request) = "replay_by_timestamp"
    THEN [bound |-> TRUE,
          val |-> find_energy_after_arrival_time(
                      store, deserialize_msg(request.last_event_date).arrival_time)]
    ELSE IF TypeOf(request) = "replay_all"
    THEN [bound |-> TRUE, val |-> get_all_events(store)]
    ELSE events

\* lines 57-65 raise: a missing watermark field, or `events` read before assignment
HandlerRaises(request, events) ==
    \/ TypeOf(request) = "replay_by_timestamp" /\ ByTimestampRaises(request)
    \/ TypeOf(request) \notin {"replay_by_timestamp", "replay_all"} /\ ~events.bound

\* line 65
Serialized(events) == JsonList([i \in 1..Len(events) |-> serialize_msg(events[i])])

\* r's request has reached the server's socket
Deliverable(r) == req_chan[r] # NoMsg

\* lines 54-69, one turn of the loop: a truthy request is handled without an
\* exception and one reply is sent
SrvServe(r) ==
    /\ srv_pc = "recv"
    /\ ~srv_must_reply
    /\ Deliverable(r)
    /\ LET request == req_chan[r]
       IN  /\ Truthy(request)
           /\ ~HandlerRaises(request, srv_events)
           /\ srv_events' = EventsAfterDispatch(request, srv_events, server_store)
           /\ rep_chan' = [rep_chan EXCEPT ![r] = Serialized(srv_events'.val)]
    /\ req_chan' = [req_chan EXCEPT ![r] = NoMsg]
    /\ UNCHANGED << clientVars, server_store, srv_pc, srv_must_reply, peer_pc, peer_request >>

\* lines 54-65, the handler raises: the thread of the server loop ends, no reply
SrvCrash(r) ==
    /\ srv_pc = "recv"
    /\ ~srv_must_reply
    /\ Deliverable(r)
    /\ Truthy(req_chan[r])
    /\ HandlerRaises(req_chan[r], srv_events)
    /\ req_chan' = [req_chan EXCEPT ![r] = NoMsg]
    /\ srv_pc' = "dead"
    /\ UNCHANGED << clientVars, server_store, srv_events, srv_must_reply,
                    rep_chan, peer_pc, peer_request >>

\* lines 54-56, 69, one turn of the loop: a falsy request is dropped without a reply
SrvIgnoreEmpty(r) ==
    /\ srv_pc = "recv"
    /\ ~srv_must_reply
    /\ Deliverable(r)
    /\ ~Truthy(req_chan[r])
    /\ req_chan' = [req_chan EXCEPT ![r] = NoMsg]
    /\ srv_must_reply' = TRUE
    /\ UNCHANGED << clientVars, server_store, srv_pc, srv_events, rep_chan, peer_pc, peer_request >>

\* line 54: recv_json() on a REP socket that still owes a reply raises ZMQError
\* (EFSM) and the thread of the server loop ends
SrvRecvOutOfTurn ==
    /\ srv_pc = "recv"
    /\ srv_must_reply
    /\ srv_pc' = "dead"
    /\ UNCHANGED << clientVars, server_store, srv_events, srv_must_reply, netVars >>

\* ================================================================ environment
\* the requests another requester may send to the replay server
PeerRequests ==
    { EmptyRequest, [type |-> "unknown"], [type |-> "replay_by_timestamp"], ReplayAll }
    \cup { ReplayByTimestamp(e) : e \in EnergyEvents }

PeerSend(request) ==
    /\ peer_pc = "idle"
    /\ req_chan' = [req_chan EXCEPT ![PeerId] = request]
    /\ peer_pc' = "waiting"
    /\ peer_request' = request
    /\ UNCHANGED << clientVars, serverVars, rep_chan >>

PeerRecv ==
    /\ peer_pc = "waiting"
    /\ rep_chan[PeerId] # NoMsg
    /\ rep_chan' = [rep_chan EXCEPT ![PeerId] = NoMsg]
    /\ peer_pc' = "idle"
    /\ UNCHANGED << clientVars, serverVars, req_chan, peer_request >>

\* the server took the request and sent no reply: the requester's receive
\* timeout runs out, it drops the exchange and is free to send again
PeerGivesUp ==
    /\ peer_pc = "waiting"
    /\ req_chan[PeerId] = NoMsg
    /\ rep_chan[PeerId] = NoMsg
    /\ peer_pc' = "idle"
    /\ UNCHANGED << clientVars, serverVars, req_chan, rep_chan, peer_request >>

\* the upstream's own producers store a new event
UpstreamInsert(e) ==
    /\ CanInsert(server_store, e)
    /\ server_store' = Append(server_store, e)
    /\ UNCHANGED << clientVars, srv_pc, srv_events, srv_must_reply, netVars >>

\* the client's live path stores a new energy-usage event
LiveInsert(e) ==
    /\ e \in EnergyEvents
    /\ CanInsert(client_store, e)
    /\ client_store' = Append(client_store, e)
    /\ UNCHANGED << last_event_date, request_in_progress, send_replay_lock,
                    remote_replay_socket, loop_pc, loop_request, workers >>
    /\ UNCHANGED << serverVars, netVars >>
    /\ UNCHANGED last_attempt

\* an upstream that answers JSON null
UpstreamRepliesNull(w) ==
    /\ Deliverable(w)
    /\ req_chan' = [req_chan EXCEPT ![w] = NoMsg]
    /\ rep_chan' = [rep_chan EXCEPT ![w] = None]
    /\ UNCHANGED << clientVars, serverVars, peer_pc, peer_request >>

\* ================================================================ specification
LoopStep == LoopCheck \/ LoopBuild \/ LoopAcquire \/ LoopSetFlag \/ LoopSpawn \/ LoopSleep

\* a worker's steps when nothing but the upstream's silence goes wrong
WorkerRuns(w) ==
    \/ WCreateSocket(w) \/ WConnect(w) \/ WSend(w)
    \/ WRecv(w) \/ WTimeout(w) \/ WBackoff(w)
    \/ WHandleNothing(w) \/ WApplyEvent(w)
    \/ WFinallyClose(w) \/ WFinallyClear(w)

WorkerStep(w) ==
    \/ WorkerRuns(w)
    \/ WCreateSocketFails(w) \/ WConnectFails(w) \/ WApplyFails(w)
    \/ WFinallyCloseRaises(w)

\* the upstream as the client meets it: it answers the workers' requests
Upstream ==
    \/ \E w \in WorkerIds : SrvServe(w)
    \/ \E w \in WorkerIds : UpstreamRepliesNull(w)
    \/ \E e \in Events : UpstreamInsert(e)

\* The replay client with its upstream.
Next ==
    \/ LoopStep
    \/ \E w \in WorkerIds : WorkerStep(w)
    \/ \E e \in Events : LiveInsert(e)
    \/ Upstream

Spec == Init /\ [][Next]_vars

\* The replay server with a requester that may send anything.
ServerNext ==
    \/ \E r \in Requesters : SrvServe(r) \/ SrvCrash(r) \/ SrvIgnoreEmpty(r)
    \/ SrvRecvOutOfTurn
    \/ \E request \in PeerRequests : PeerSend(request)
    \/ PeerRecv
    \/ PeerGivesUp
    \/ \E e \in Events : UpstreamInsert(e)

ServerSpec == Init /\ [][ServerNext]_vars

\* The replay client across an outage of its upstream: the only thing that goes
\* wrong is that requests time out.  The threads of the client and the server
\* loop keep being scheduled.
FairNext ==
    \/ LoopStep
    \/ \E w \in WorkerIds : WorkerRuns(w)
    \/ \E w \in WorkerIds : SrvServe(w)
    \/ \E e \in Events : UpstreamInsert(e)

FairSpec ==
    /\ Init
    /\ [][FairNext]_vars
    /\ WF_vars(LoopStep)
    /\ \A w \in WorkerIds : WF_vars(WorkerRuns(w))
    /\ WF_vars(\E w \in WorkerIds : SrvServe(w))

\* ================================================================ properties
\* the arrival time a request asks to resume after (0: from the beginning)
ResumePoint(request) ==
    IF request.type = "replay_all" THEN 0
    ELSE deserialize_msg(request.last_event_date).arrival_time

\* a tick hands its request to a new worker thread in this step
Dispatching == loop_pc = "spawn" /\ loop_pc' = "sleep"

\* C1: at most one dispatch worker (_send_replay_request thread) is active at
\* any time, whatever ticks, completions, timeouts and failures have happened.
AtMostOneInFlight == Cardinality(ActiveWorkers) <= 1

\* a tick is evaluated while a worker is in the middle of its exchange
C1_Witness ==
    /\ loop_pc = "check"
    /\ request_in_progress
    /\ \E w \in WorkerIds : WorkerAt(w, "recv")

\* C2: when no dispatch worker is active (and the loop is not between setting
\* the flag and starting the thread), request_in_progress is false: a worker
\* leaves the flag cleared on every exit path.
FlagReleasedOnEveryExit ==
    (ActiveWorkers = {} /\ loop_pc # "spawn") => ~request_in_progress

\* C3: no step moves the watermark back, in particular no turn of the apply
\* loop over a non-empty batch (the repository's latest event never moves back).
WatermarkMonotone == [][WmLeq(last_event_date, last_event_date')]_vars

\* in the middle of a batch the watermark is past the point the request resumed from
C3_Witness ==
    \E w \in WorkerIds :
        /\ WorkerAt(w, "handle")
        /\ workers[w].idx > 1
        /\ workers[w].request.type = "replay_by_timestamp"
        /\ ArrivalOf(last_event_date) > ResumePoint(workers[w].request)

\* C4: the request handed to a worker is replay_all exactly when the watermark
\* is None at that moment and otherwise replay_by_timestamp carrying that
\* watermark; a watermark that is set is never None again, so every later
\* request is replay_by_timestamp.
RequestFollowsWatermark ==
    [][ /\ Dispatching =>
            LET request == workers'[FreeSlot].request
            IN  IF last_event_date = None
                THEN request = [type |-> "replay_all"]
                ELSE /\ request.type = "replay_by_timestamp"
                     /\ deserialize_msg(request.last_event_date) = last_event_date
        /\ last_event_date # None => last_event_date' # None ]_vars

\* a repeated dispatch carries the watermark the apply path moved to
C4_Witness ==
    \E w \in WorkerIds :
        /\ WorkerAt(w, "create")
        /\ remote_replay_socket = "closed"
        /\ last_event_date # None
        /\ workers[w].request.type = "replay_by_timestamp"
        /\ deserialize_msg(workers[w].request.last_event_date) = last_event_date

\* the events of a reply, and the latest energy-usage arrival among them
Batch(response) ==
    IF response = None THEN <<>>
    ELSE [i \in 1..Len(response.list) |-> deserialize_msg(response.list[i])]
LatestEnergyIn(batch) ==
    MaxArrival(SelectSeq(batch, LAMBDA e : e.name = "energy_usage"))

\* worker w takes a step
Steps(w) == workers'[w] # workers[w]
\* worker w applies the last event of its batch in this step
FinishesBatch(w) ==
    /\ WorkerAt(w, "handle")
    /\ ~NothingToApply(workers[w].response)
    /\ workers'[w].pc = "finally"
    /\ last_attempt'.outcome = "applied"

\* C5: once the client has applied a returned batch, its watermark has reached
\* the arrival time of the latest energy-usage event of that batch (upstream
\* [1, 2, 3], watermark 2: the reply is the event at 3 and the watermark
\* becomes 3).
CatchUpAdvancesWatermark ==
    [][ \A w \in WorkerIds :
            FinishesBatch(w) =>
                ArrivalOf(last_event_date') >= LatestEnergyIn(Batch(workers[w].response)) ]_vars

\* C6: an empty or null response is a no-op of the apply path: the watermark
\* and the client's repository stay as they are and the worker goes on to its
\* normal end without an error.
EmptyResponseIsNoOp ==
    [][ \A w \in WorkerIds :
            (WorkerAt(w, "handle") /\ NothingToApply(workers[w].response) /\ Steps(w)) =>
                /\ last_event_date' = last_event_date
                /\ client_store' = client_store
                /\ workers'[w].pc = "finally"
                /\ last_attempt'.outcome = "applied" ]_vars

\* Scenario A: empty upstream, replay_all answered with no events, watermark
\* still None after the apply path
C6_Witness ==
    \E w \in WorkerIds :
        /\ WorkerAt(w, "finally")
        /\ workers[w].request = [type |-> "replay_all"]
        /\ workers[w].response = JsonList(<<>>)
        /\ server_store = <<>>
        /\ last_attempt.outcome = "applied"
        /\ last_event_date = None

\* C7: a worker whose receive times out goes through its backoff, leaves the
\* watermark alone and ends with the flag cleared; the tick that follows
\* dispatches the same request again.
TimeoutRecovery ==
    [][ /\ last_attempt'.outcome = "timeout" => last_event_date' = last_event_date
        /\ \A w \in WorkerIds :
              /\ (WorkerAt(w, "recv") /\ Steps(w) /\ rep_chan[w] = NoMsg)
                    => workers'[w].pc = "backoff"
              /\ (Active(w) /\ ~Active(w)' /\ last_attempt.outcome = "timeout")
                    => ~request_in_progress'
        /\ (Dispatching /\ last_attempt.outcome = "timeout")
              => workers'[FreeSlot].request = last_attempt.request ]_vars

\* the tick after a timeout is about to start a worker with the same request
C7_Witness ==
    /\ loop_pc = "spawn"
    /\ last_attempt.outcome = "timeout"
    /\ loop_request = last_attempt.request
    /\ loop_request.type = "replay_by_timestamp"

\* C8: a well-formed request the server takes is answered in the same turn of
\* the loop with one reply: every stored event for replay_all, exactly the
\* stored events that arrived strictly after the watermark for
\* replay_by_timestamp, in the order of the store.
ServerResult ==
    [][ \A r \in Requesters :
            (req_chan[r] # NoMsg /\ WellFormed(req_chan[r]) /\ req_chan'[r] = NoMsg) =>
                LET request == req_chan[r]
                    wanted ==
                        IF request.type = "replay_all" THEN server_store
                        ELSE SelectSeq(server_store,
                                 LAMBDA e : e.arrival_time >
                                     request.last_event_date.json.arrival_time)
                IN  /\ rep_chan[r] = NoMsg
                    /\ rep_chan'[r] = [list |-> [i \in 1..Len(wanted) |-> [json |-> wanted[i]]]] ]_vars

\* the peer holds the reply to a replay_by_timestamp request that left out the
\* stored events up to its watermark and kept the later ones
C8_Witness ==
    /\ peer_pc = "waiting"
    /\ peer_request \in { ReplayByTimestamp(e) : e \in EnergyEvents }
    /\ rep_chan[PeerId] # NoMsg
    /\ Len(rep_chan[PeerId].list) >= 1
    /\ Len(rep_chan[PeerId].list) < Len(server_store)
    /\ \A i \in 1..Len(rep_chan[PeerId].list) :
          rep_chan[PeerId].list[i].json.arrival_time > ResumePoint(peer_request)

\* C9: a requester whose malformed request the server has taken is answered:
\* no requester is left waiting for a reply the server will never send.
NoOrphanedRequester ==
    (peer_pc = "waiting" /\ ~WellFormed(peer_request)) =>
        (req_chan[PeerId] # NoMsg \/ rep_chan[PeerId] # NoMsg)

\* the watermark has reached the upstream's latest energy-usage event
CaughtUp == ArrivalOf(last_event_date) >= LatestEnergyIn(server_store)

\* C10: if from some point on no request times out (the upstream is reachable
\* again and stays so), the client's watermark reaches the upstream's latest
\* energy-usage event, again and again as the upstream stores more.
NoEventLost == (<>[](last_attempt.outcome # "timeout")) => []<>CaughtUp

\* C11: a tick evaluated with the flag false goes on to dispatch: it sets the
\* flag and starts exactly one worker; a tick evaluated with the flag true
\* skips: no worker starts and the flag, the watermark and the pending request
\* stay as they are; workers start in no other way.
TickTransition ==
    [][ /\ (loop_pc = "check" /\ loop_pc' # "check") =>
              IF request_in_progress
              THEN /\ loop_pc' = "skip"
                   /\ UNCHANGED << request_in_progress, last_event_date,
                                   loop_request, workers >>
              ELSE loop_pc' = "build"
        /\ (loop_pc # "build" /\ loop_pc' = "build") =>
              (loop_pc = "check" /\ ~request_in_progress)
        /\ (loop_pc = "build" /\ loop_pc' # "build") => loop_pc' = "acquire"
        /\ (loop_pc = "acquire" /\ loop_pc' # "acquire") => loop_pc' = "set"
        /\ (loop_pc = "set" /\ loop_pc' # "set") =>
              (loop_pc' = "spawn" /\ request_in_progress')
        /\ (loop_pc = "spawn" /\ loop_pc' # "spawn") =>
              /\ Dispatching
              /\ request_in_progress'
              /\ Cardinality(ActiveWorkers') = Cardinality(ActiveWorkers) + 1
        /\ \A w \in WorkerIds : (~Active(w) /\ Active(w)') => Dispatching ]_vars

\* Scenario D: the second tick has been skipped while the worker of the first
\* is still in its exchange, and that worker is the only one
C11_Witness ==
    /\ loop_pc = "skip"
    /\ request_in_progress
    /\ last_attempt.outcome = "running"
    /\ \E w \in WorkerIds :
          /\ workers[w].pc \in {"connect", "send", "recv"}
          /\ ActiveWorkers = {w}

\* C12: every step that changes request_in_progress is taken while
\* send_replay_lock is held: the change to true in the request loop and the
\* change to false at the end of a dispatch worker.
FlagMutatedUnderLock ==
    [][ request_in_progress' # request_in_progress => send_replay_lock # "free" ]_vars

\* the workers that are in handle_replay_events
Applying == { w \in WorkerIds : WorkerAt(w, "handle") }

\* C13: a step changes the watermark only if it is a turn of the apply loop of
\* a dispatch worker (ticks, request building, dispatch, timeout, backoff and
\* flag release leave it alone), and at most one worker is in the apply path.
WatermarkOnlyByApplyPath ==
    [][ /\ last_event_date' # last_event_date =>
              \E w \in WorkerIds :
                  /\ WorkerAt(w, "handle")
                  /\ ~NothingToApply(workers[w].response)
                  /\ Steps(w)
        /\ Cardinality(Applying) <= 1
        /\ Cardinality(Applying') <= 1 ]_vars

\* a worker dispatched with replay_all (the watermark was None) has applied
\* its batch and the watermark is set: the apply path changed it
C13_Witness ==
    \E w \in WorkerIds :
        /\ WorkerAt(w, "finally")
        /\ workers[w].request = [type |-> "replay_all"]
        /\ last_attempt.outcome = "applied"
        /\ last_event_date # None

\* C14: the turns of the apply loop process the events of the batch one at a
\* time in the order of the reply, none skipped, repeated or dropped, and every
\* turn re-reads the watermark from the repository before the next one; a
\* failure ends the batch where it is.
ApplyOrder ==
    [][ \A w \in WorkerIds :
          /\ (~WorkerAt(w, "handle") /\ workers'[w].pc = "handle") =>
                workers'[w].processed = <<>>
          /\ (WorkerAt(w, "handle") /\ ~NothingToApply(workers[w].response) /\ Steps(w)) =>
                LET events == workers[w].response.list
                    done == workers[w].processed
                IN  \/ /\ workers'[w].processed = done
                       /\ workers'[w].pc = "finally"
                       /\ last_attempt'.outcome = "failed"
                    \/ /\ workers'[w].processed = SubSeq(events, 1, Len(done) + 1)
                       /\ last_event_date' = find_latest_energy_usage(client_store')
                       /\ IF Len(done) + 1 < Len(events)
                          THEN workers'[w].pc = "handle"
                          ELSE /\ workers'[w].pc = "finally"
                               /\ last_attempt'.outcome = "applied" ]_vars

\* two events of a batch of three have been processed, in the order of the
\* reply, and the watermark has moved on from the point the request resumed from
C14_Witness ==
    \E w \in WorkerIds :
        /\ WorkerAt(w, "handle")
        /\ ~NothingToApply(workers[w].response)
        /\ Len(workers[w].response.list) = 3
        /\ workers[w].processed = SubSeq(workers[w].response.list, 1, 2)
        /\ last_event_date = find_latest_energy_usage(client_store)
        /\ ArrivalOf(last_event_date) > ResumePoint(workers[w].request)

\* the events of a store
Stored(store) == { store[i] : i \in 1..Len(store) }

\* C15: when the apply path has processed a batch, every energy_usage event of
\* the batch is in the client's repository and no event of another kind
\* (weather) has been added to it.
EnergyEventsPersisted ==
    [][ \A w \in WorkerIds :
            FinishesBatch(w) =>
                LET batch == Batch(workers[w].response)
                IN  \A i \in 1..Len(batch) :
                        IF batch[i].name = "energy_usage"
                        THEN batch[i] \in Stored(client_store')
                        ELSE batch[i] \notin Stored(client_store') ]_vars

\* the workers that wait on the network: creating or connecting the socket,
\* sending, waiting for the reply, or sleeping after a timeout
Blocked == { w \in WorkerIds : workers[w].pc \in {"create", "connect", "send", "recv", "backoff"} }

\* C16: while a worker waits on the network or in its backoff, nobody holds
\* send_replay_lock and the request loop can take its next step; the lock is
\* only ever held by the loop, between taking it and starting the worker.
LoopNeverBlocked ==
    /\ Blocked # {} => (send_replay_lock = "free" /\ ENABLED LoopStep)
    /\ send_replay_lock # "free" =>
          (send_replay_lock = "loop" /\ loop_pc \in {"set", "spawn"})

\* the loop has taken (and skipped) a tick while the worker sleeps after a timeout
C16_Witness ==
    /\ loop_pc = "skip"
    /\ send_replay_lock = "free"
    /\ \E w \in WorkerIds : WorkerAt(w, "backoff")

\* C17: a worker past line 90 works on a connection it opened itself, the
\* connection is open only while such a worker has not yet run line 105, and
\* once no worker is active no connection is open, whatever the outcome was.
ConnectionReleased ==
    /\ \A w \in WorkerIds :
          workers[w].pc \in {"connect", "send", "recv", "handle", "backoff"} =>
              remote_replay_socket = "open"
    /\ remote_replay_socket = "open" =>
          \E w \in WorkerIds :
              workers[w].pc \in {"connect", "send", "recv", "handle", "backoff", "finally"}
    /\ ActiveWorkers = {} => remote_replay_socket # "open"

\* a worker whose exchange timed out or failed has ended and its connection is closed
C17_Witness ==
    /\ ActiveWorkers = {}
    /\ remote_replay_socket = "closed"
    /\ last_attempt.outcome \in {"timeout", "failed"}
    /\ ~request_in_progress

\* C18: the watermark is None or an event of the client's own repository, in
\* the middle of a batch and after an interrupted batch as well; it is never
\* an event the repository does not hold.
WatermarkIsStored ==
    last_event_date = None \/ last_event_date \in Stored(client_store)

\* a batch was interrupted after events the repository does not hold were
\* processed, and the watermark is an event of the repository
C18_Witness ==
    \E w \in WorkerIds :
        /\ WorkerAt(w, "finally")
        /\ last_attempt.outcome = "failed"
        /\ \E i \in 1..Len(workers[w].processed) :
              deserialize_msg(workers[w].processed[i]) \notin Stored(client_store)
        /\ last_event_date # None
        /\ last_event_date \in Stored(client_store)

\* C19: the reply the server sends to a request is the reply a server that has
\* seen no request before would send to it over the same store; in particular
\* an unrecognized type is not answered with the events of an earlier request.
ResponseIndependentOfHistory ==
    [][ \A r \in Requesters :
            (req_chan[r] # NoMsg /\ rep_chan[r] = NoMsg /\ rep_chan'[r] # NoMsg) =>
                /\ ~HandlerRaises(req_chan[r], Unbound)
                /\ rep_chan'[r] =
                      Serialized(EventsAfterDispatch(req_chan[r], Unbound, server_store).val) ]_vars

\* C20: no well-formed request waits at a server whose loop has ended: bad
\* requests before it (an empty body, an unknown type as the first request, a
\* replay_by_timestamp without last_event_date) leave the loop running.
ServerSurvivesBadRequests ==
    \A r \in Requesters :
        (req_chan[r] # NoMsg /\ WellFormed(req_chan[r])) => srv_pc # "dead"
====
